---------------------------- MODULE Spec2Model ----------------------------
(***************************************************************************)
(* go-chord: an event-driven pipeline runtime.                             *)
(*                                                                         *)
(*   trigger worker --ch[0]--> stage 1 --ch[1]--> ... stage K --ch[K]-->   *)
(*   driver (RunFlow) --> Flow.OnSuccess / Flow.OnError                    *)
(*                                                                         *)
(* Every channel is an unbuffered Go channel: a send and a receive happen  *)
(* in one rendezvous step.  The two reference triggers (trigger.Ticker and *)
(* trigger.Http) are modelled goroutine by goroutine, each blocking point  *)
(* of the Go code being one value of a program counter.                    *)
(***************************************************************************)
EXTENDS Integers, Sequences, FiniteSets

\* ------------------------------------------------------------------ bounds
MaxK == 2          \* longest chain Flow.Pipeline builds
MaxItems == 3      \* ticks the timer fires in one run
MaxReq == 2        \* HTTP requests that arrive in one run

Stages == 1..MaxK
Items == 1..MaxItems
Reqs == 1..MaxReq
DoneCallers == {1, 2}     \* user code that may call Done() on one wrapper
Runs == {1, 2}            \* invocations of one Stage value

VARIABLES
    kind,        \* which Trigger feeds the run: "ticker" or "http"
    K,           \* number of NewStage calls Flow.Pipeline made
    fallible,    \* the flow's transforms may return an error
    cancelled,   \* ctx.Done() is closed
    tpc,         \* trigger worker goroutine: where it is
    theld,       \* Outcome the trigger worker is about to write to ch[0]
    tickReady,   \* t.C (capacity 1) holds a tick
    tickVal,     \* the tick held in t.C
    ticks,       \* ticks the timer has fired so far
    stopped,     \* t.Stop() has run
    chClosed,    \* chClosed[i]: ch[i] is closed
    closeCount,  \* closeCount[i]: close(ch[i]) calls so far
    spc,         \* spc[i]: where stage worker i is
    sheld,       \* sheld[i]: the Outcome stage worker i holds
    dpc,         \* driver loop: "recv", "handler" or "done"
    handlerLog,  \* terminal handler invocations, in invocation order
    returned,    \* terminal handler invocations that have returned
    calls,       \* <<stage, item>>: transform of stage was invoked on item
    errs,        \* <<stage, item>>: that invocation returned an error
    succErr,     \* some OnSuccess invocation has returned an error
    emitted,     \* ids of the Outcomes the trigger handed off, in order
    cancelAt,    \* Len(emitted) when ctx was cancelled, -1 before
    cancelEarly, \* ctx was cancelled before the source produced any event
    hpc,         \* hpc[r]: where the ServeHTTP goroutine of request r is
    doneClosed,  \* doneClosed[r]: the done channel of request r is closed
    dcall,       \* dcall[r][c]: state of Done() call c on the wrapper of r
    reqClosed,   \* ht.ch is closed
    srvClosed,   \* ht.Close() has run
    interval,    \* the duration d given to NewTicker
    deadline,    \* when the context's timeout cancels ctx
    now,         \* the time
    nextFire,    \* when the runtime timer of t fires next
    rpc,         \* rpc[a]: where the worker of invocation a of one Stage is
    rheld,       \* rheld[a]: the tick that worker is about to write
    rcloses,     \* rcloses[a]: close(ch) calls on the channel of invocation a
    rgot         \* rgot[a]: the ticks read from the channel of invocation a

cfgVars == <<kind, K, fallible>>
ctxVars == <<cancelled, cancelAt, cancelEarly>>
trigVars == <<tpc, theld>>
chanVars == <<chClosed, closeCount>>
stageVars == <<spc, sheld>>
drvVars == <<dpc, handlerLog, returned>>
tickerVars == <<tickReady, tickVal, ticks, stopped>>
httpVars == <<hpc, doneClosed, dcall, reqClosed, srvClosed>>
histVars == <<calls, errs, succErr>>
clockVars == <<interval, deadline, now, nextFire>>
runVars == <<rpc, rheld, rcloses, rgot>>
vars == <<cfgVars, ctxVars, trigVars, chanVars, stageVars, drvVars, histVars,
          emitted, tickerVars, httpVars, clockVars, runVars>>

\* ---------------------------------------------------------------- Outcome
\* conduit.Result: a success carrying a value or a failure carrying an error.
\* id names the event, val counts the transforms applied to it, err is the
\* stage whose transform produced the error (0 for a success).
NoItem == [id |-> 0, ok |-> TRUE, err |-> 0, val |-> 0]

\* conduit.Ok(ctx, v)
Ok(n) == [id |-> n, ok |-> TRUE, err |-> 0, val |-> 0]

Range(q) == {q[k] : k \in 1..Len(q)}

\* ------------------------------------------------------------------ wiring
UpstreamTrigger(i) == 0

\* NewStage(p, fn): the new stage's worker reads the channel of p, the stage
\* (or trigger) it was built on.
Upstream(i) == i - 1

TerminalUpstream == K - 1

\* RunFlow drains the Stage that f.Pipeline(s) returns: the last of the chain.
Terminal == K

HandlerForSwapped(o) == IF o.ok THEN "OnError" ELSE "OnSuccess"

\* RunFlow hands f.OnSuccess to the consumer as its success handler and
\* f.OnError as its error handler.
HandlerFor(o) == IF o.ok THEN "OnSuccess" ELSE "OnError"

\* ------------------------------------------------------- channel endpoints
\* The writer of ch[c] is blocked in its write (c = 0: the trigger worker).
SenderReady(c) == IF c = 0 THEN tpc = "send" ELSE spc[c] = "send"

SenderItem(c) == IF c = 0 THEN theld ELSE sheld[c]

\* Terminal handler invocations that have started and not returned.
InProgress == Len(handlerLog) - returned

\* ------------------------------------------------------------ stage worker
\* fn(ctx, in) of stage i on the value of Outcome o returns a value or an
\* error, as the flow's author wrote it: the Outcomes the worker may make.
Transform(i, o) ==
    {[o EXCEPT !.val = o.val + 1]} \cup
    IF fallible
    THEN {[id |-> o.id, ok |-> FALSE, err |-> i, val |-> o.val]}
    ELSE {}

\* Railway: a failure read from upstream is forwarded as it is, a success
\* goes to the transform.
AfterRecv(o) == IF o.ok THEN "work" ELSE "send"

\* Worker i reads one Outcome from its upstream channel (a rendezvous with
\* the upstream writer, which goes back to the top of its loop).
StageRecv(i) ==
    LET c == Upstream(i)
        o == SenderItem(c)
    IN  /\ i <= K
        /\ spc[i] = "recv"
        /\ SenderReady(c)
        /\ IF c = 0
           THEN /\ tpc' = "select"
                /\ theld' = NoItem
                /\ emitted' = Append(emitted, o.id)
                /\ spc' = [spc EXCEPT ![i] = AfterRecv(o)]
                /\ sheld' = [sheld EXCEPT ![i] = o]
           ELSE /\ spc' = [spc EXCEPT ![i] = AfterRecv(o), ![c] = "recv"]
                /\ sheld' = [sheld EXCEPT ![i] = o, ![c] = NoItem]
                /\ UNCHANGED <<trigVars, emitted>>
        /\ UNCHANGED <<cfgVars, ctxVars, chanVars, drvVars, histVars, tickerVars,
                       httpVars, clockVars, runVars>>

\* Worker i invokes its transform on the success it holds.
StageTransform(i) ==
    /\ i <= K
    /\ spc[i] = "work"
    /\ calls' = calls \cup {<<i, sheld[i].id>>}
    /\ \E res \in Transform(i, sheld[i]) :
          /\ sheld' = [sheld EXCEPT ![i] = res]
          /\ errs' = IF res.ok THEN errs ELSE errs \cup {<<i, res.id>>}
    /\ spc' = [spc EXCEPT ![i] = "send"]
    /\ UNCHANGED <<cfgVars, ctxVars, trigVars, chanVars, drvVars, emitted, succErr,
                   tickerVars, httpVars, clockVars, runVars>>

\* Worker i finds its upstream closed: it closes its own channel and exits.
StageClose(i) ==
    /\ i <= K
    /\ spc[i] = "recv"
    /\ chClosed[Upstream(i)]
    /\ chClosed' = [chClosed EXCEPT ![i] = TRUE]
    /\ closeCount' = [closeCount EXCEPT ![i] = closeCount[i] + 1]
    /\ spc' = [spc EXCEPT ![i] = "exit"]
    /\ UNCHANGED <<cfgVars, ctxVars, trigVars, sheld, drvVars, histVars, emitted,
                   tickerVars, httpVars, clockVars, runVars>>

\* ------------------------------------------------------------------ driver
AfterDispatchAsync == "recv"

\* Where the driver loop is once it has invoked a handler: it waits for the
\* handler to return.
AfterDispatch == "handler"

\* The driver reads one Outcome from the terminal channel and invokes the
\* handler for it.
DriverRecv ==
    LET c == Terminal
        o == SenderItem(c)
    IN  /\ dpc = "recv"
        /\ SenderReady(c)
        /\ handlerLog' = Append(handlerLog,
               [kind |-> HandlerFor(o), id |-> o.id, err |-> o.err,
                val |-> o.val, emitAt |-> Len(emitted)])
        /\ dpc' = AfterDispatch
        /\ spc' = [spc EXCEPT ![c] = "recv"]
        /\ sheld' = [sheld EXCEPT ![c] = NoItem]
        /\ UNCHANGED <<cfgVars, ctxVars, trigVars, chanVars, returned, histVars,
                       emitted, tickerVars, httpVars, clockVars, runVars>>

\* What a handler may return: OnSuccess returns an error or nil, as the
\* flow's author wrote it; OnError returns nothing.
Returns(h) == IF h = "OnSuccess" /\ fallible THEN {TRUE, FALSE} ELSE {FALSE}

OnReturnFedBack(log, e) ==
    IF e
    THEN Append(log, [kind |-> "OnError", id |-> log[returned + 1].id,
                      err |-> K + 1, val |-> 0, emitAt |-> Len(emitted)])
    ELSE log

\* The handler log once a handler has returned e (TRUE: an error): the loop
\* drops the value, no handler is invoked for it.
OnReturn(log, e) == log

\* A terminal handler invocation returns; the loop goes on to its next read.
HandlerReturn ==
    /\ InProgress > 0
    /\ returned' = returned + 1
    /\ \E e \in Returns(handlerLog[returned + 1].kind) :
          /\ succErr' = (succErr \/ e)
          /\ handlerLog' = OnReturn(handlerLog, e)
    /\ dpc' = IF dpc = "handler" THEN "recv" ELSE dpc
    /\ UNCHANGED <<cfgVars, ctxVars, trigVars, chanVars, stageVars, calls,
                   errs, emitted, tickerVars, httpVars, clockVars, runVars>>

\* The driver finds the terminal channel closed: RunFlow returns.
DriverClose ==
    /\ dpc = "recv"
    /\ chClosed[Terminal]
    /\ dpc' = "done"
    /\ UNCHANGED <<cfgVars, ctxVars, trigVars, chanVars, stageVars,
                   handlerLog, returned, histVars, emitted, tickerVars, httpVars,
                   clockVars, runVars>>

\* ----------------------------------------------------------------- context
\* The event source has produced nothing yet: no tick has fired, no request
\* has reached ServeHTTP, and the trigger worker has written nothing.
NoEventYet ==
    /\ emitted = <<>>
    /\ theld = NoItem
    /\ ticks = 0
    /\ ~tickReady
    /\ \A r \in Reqs : hpc[r] = "idle"

\* ctx.Done() is closed, once and for all.
CtxDone ==
    /\ ~cancelled
    /\ cancelled' = TRUE
    /\ cancelAt' = Len(emitted)
    /\ cancelEarly' = NoEventYet
    /\ UNCHANGED <<cfgVars, trigVars, chanVars, stageVars, drvVars, histVars,
                   emitted, tickerVars, httpVars, runVars>>

\* cancel(): the owner of ctx cancels it when it pleases.
Cancel == CtxDone /\ UNCHANGED clockVars

\* The trigger worker is blocked in a channel operation or has returned:
\* the steps in between take no time.
Parked == tpc \in {"waitTick", "send", "exit"}

\* context.WithTimeout: ctx is cancelled when the time reaches the deadline,
\* after every tick due before it.
Timeout ==
    /\ Parked
    /\ stopped \/ ticks = MaxItems \/ nextFire >= deadline
    /\ CtxDone
    /\ now' = deadline
    /\ UNCHANGED <<interval, deadline, nextFire>>

\* ---------------------------------------------------------- trigger.Ticker
\* The runtime timer fires: the tick goes into t.C, or is dropped when t.C
\* still holds the previous one.
TimerFires ==
    /\ ~stopped
    /\ ticks < MaxItems
    /\ ticks' = ticks + 1
    /\ IF tickReady
       THEN UNCHANGED <<tickReady, tickVal>>
       ELSE tickReady' = TRUE /\ tickVal' = ticks + 1
    /\ UNCHANGED <<cfgVars, ctxVars, trigVars, chanVars, stageVars, drvVars,
                   histVars, emitted, stopped, httpVars, runVars>>

\* The timer fires at some time or other.
Tick == TimerFires /\ UNCHANGED clockVars

Second == 1000     \* time.Second in milliseconds, the unit of the clock

\* NewTicker(d) = Ticker{time.NewTicker(time.Second)}: the period of t.
NewTicker(d) == Second

\* The timer fires when its period has elapsed, once per period, and not
\* after a deadline that has not cancelled ctx yet.
TimedTick ==
    /\ Parked
    /\ cancelled \/ nextFire <= deadline
    /\ TimerFires
    /\ now' = nextFire
    /\ nextFire' = nextFire + NewTicker(interval)
    /\ UNCHANGED <<interval, deadline>>

SelectDefaultOnly(done) == "waitTick"

\* select { case <-ctx.Done(): return; default: ... }: the default branch is
\* taken only when ctx.Done() is not ready; return runs the deferred calls.
SelectBranch(done) == IF done THEN "closeCh" ELSE "waitTick"

TickerSelect ==
    /\ kind = "ticker"
    /\ tpc = "select"
    /\ tpc' = SelectBranch(cancelled)
    /\ UNCHANGED <<cfgVars, ctxVars, theld, chanVars, stageVars, drvVars,
                   histVars, emitted, tickerVars, httpVars, clockVars, runVars>>

\* <-t.C: the worker takes the tick and wraps it with conduit.Ok.
TickerRecvTick ==
    /\ tpc = "waitTick"
    /\ tickReady
    /\ theld' = Ok(tickVal)
    /\ tickReady' = FALSE
    /\ tickVal' = 0
    /\ tpc' = "send"
    /\ UNCHANGED <<cfgVars, ctxVars, chanVars, stageVars, drvVars, histVars,
                   emitted, ticks, stopped, httpVars, clockVars, runVars>>

\* The deferred calls run last registered first: close(ch), then t.Stop().
TickerCloseCh ==
    /\ tpc = "closeCh"
    /\ chClosed' = [chClosed EXCEPT ![0] = TRUE]
    /\ closeCount' = [closeCount EXCEPT ![0] = closeCount[0] + 1]
    /\ tpc' = "stop"
    /\ UNCHANGED <<cfgVars, ctxVars, theld, stageVars, drvVars, histVars,
                   emitted, tickerVars, httpVars, clockVars, runVars>>

TickerStop ==
    /\ tpc = "stop"
    /\ stopped' = TRUE
    /\ tpc' = "exit"
    /\ UNCHANGED <<cfgVars, ctxVars, theld, chanVars, stageVars, drvVars,
                   histVars, emitted, tickReady, tickVal, ticks, httpVars,
                   clockVars, runVars>>

\* ------------------------------------------- one Ticker Stage, invoked twice
\* s := t.Stage(ctx) is one closure over t and ctx; every s() makes a channel
\* of its own and starts a worker on it.  All the workers read the same t.C
\* and stop the same t.
\* rpc and rheld are the worker's own; the rest of the run is left alone.
RunStep(a, pc) ==
    /\ rpc' = [rpc EXCEPT ![a] = pc]
    /\ UNCHANGED <<cfgVars, ctxVars, trigVars, chanVars, stageVars, drvVars,
                   histVars, emitted, httpVars, clockVars>>

\* s(): ch := make(chan ...); go func() { ... }(); return ch
RunStart(a) ==
    /\ rpc[a] = "off"
    /\ RunStep(a, "select")
    /\ UNCHANGED <<tickerVars, rheld, rcloses, rgot>>

RunSelect(a) ==
    /\ rpc[a] = "select"
    /\ RunStep(a, SelectBranch(cancelled))
    /\ UNCHANGED <<tickerVars, rheld, rcloses, rgot>>

\* <-t.C
RunRecvTick(a) ==
    /\ rpc[a] = "waitTick"
    /\ tickReady
    /\ rheld' = [rheld EXCEPT ![a] = tickVal]
    /\ tickReady' = FALSE
    /\ tickVal' = 0
    /\ RunStep(a, "send")
    /\ UNCHANGED <<ticks, stopped, rcloses, rgot>>

\* ch <- conduit.Ok(ctx, tick): the reader of the channel of invocation a
\* takes the tick.
RunSend(a) ==
    /\ rpc[a] = "send"
    /\ rgot' = [rgot EXCEPT ![a] = rgot[a] \cup {rheld[a]}]
    /\ rheld' = [rheld EXCEPT ![a] = 0]
    /\ RunStep(a, "select")
    /\ UNCHANGED <<tickerVars, rcloses>>

\* defer close(ch)
RunCloseCh(a) ==
    /\ rpc[a] = "closeCh"
    /\ rcloses' = [rcloses EXCEPT ![a] = rcloses[a] + 1]
    /\ RunStep(a, "stop")
    /\ UNCHANGED <<tickerVars, rheld, rgot>>

\* defer t.Stop()
RunStop(a) ==
    /\ rpc[a] = "stop"
    /\ stopped' = TRUE
    /\ RunStep(a, "exit")
    /\ UNCHANGED <<tickReady, tickVal, ticks, rheld, rcloses, rgot>>

\* ------------------------------------------------------------ trigger.Http
\* A request reaches Handler.ServeHTTP while the server is open: the handler
\* goroutine makes its done channel and blocks writing the wrapper to ht.ch.
ReqArrive(r) ==
    /\ hpc[r] = "idle"
    /\ ~srvClosed
    /\ hpc' = [hpc EXCEPT ![r] = "send"]
    /\ UNCHANGED <<cfgVars, ctxVars, trigVars, chanVars, stageVars, drvVars,
                   histVars, emitted, tickerVars, doneClosed, dcall, reqClosed,
                   srvClosed, clockVars, runVars>>

\* select { case <-ctx.Done(): return; default: ... }
HttpSelect ==
    /\ kind = "http"
    /\ tpc = "select"
    /\ tpc' = IF cancelled THEN "closeReq" ELSE "recvReq"
    /\ UNCHANGED <<cfgVars, ctxVars, theld, chanVars, stageVars, drvVars,
                   histVars, emitted, tickerVars, httpVars, clockVars, runVars>>

\* <-ht.ch: the worker takes the wrapper of request r from its handler, which
\* goes on to wait on its done channel.
HttpRecvReq(r) ==
    /\ tpc = "recvReq"
    /\ hpc[r] = "send"
    /\ ~reqClosed
    /\ theld' = Ok(r)
    /\ tpc' = "send"
    /\ hpc' = [hpc EXCEPT ![r] = "wait"]
    /\ UNCHANGED <<cfgVars, ctxVars, chanVars, stageVars, drvVars, histVars,
                   emitted, tickerVars, doneClosed, dcall, reqClosed,
                   srvClosed, clockVars, runVars>>

\* The deferred calls run last registered first: close(ht.ch), close(ch),
\* ht.Close().
HttpCloseReq ==
    /\ tpc = "closeReq"
    /\ reqClosed' = TRUE
    /\ tpc' = "hcloseCh"
    /\ UNCHANGED <<cfgVars, ctxVars, theld, chanVars, stageVars, drvVars,
                   histVars, emitted, tickerVars, hpc, doneClosed, dcall,
                   srvClosed, clockVars, runVars>>

HttpCloseCh ==
    /\ tpc = "hcloseCh"
    /\ chClosed' = [chClosed EXCEPT ![0] = TRUE]
    /\ closeCount' = [closeCount EXCEPT ![0] = closeCount[0] + 1]
    /\ tpc' = "closeSrv"
    /\ UNCHANGED <<cfgVars, ctxVars, theld, stageVars, drvVars, histVars,
                   emitted, tickerVars, httpVars, clockVars, runVars>>

HttpCloseSrv ==
    /\ tpc = "closeSrv"
    /\ srvClosed' = TRUE
    /\ tpc' = "exit"
    /\ UNCHANGED <<cfgVars, ctxVars, theld, chanVars, stageVars, drvVars,
                   histVars, emitted, tickerVars, hpc, doneClosed, dcall,
                   reqClosed, clockVars, runVars>>

\* A handler blocked writing to ht.ch when it is closed panics (send on closed
\* channel); its deferred close(ch) runs while the panic unwinds.
HandlerPanic(r) ==
    /\ hpc[r] = "send"
    /\ reqClosed
    /\ hpc' = [hpc EXCEPT ![r] = "panicked"]
    /\ doneClosed' = [doneClosed EXCEPT ![r] = TRUE]
    /\ UNCHANGED <<cfgVars, ctxVars, trigVars, chanVars, stageVars, drvVars,
                   histVars, emitted, tickerVars, dcall, reqClosed, srvClosed,
                   clockVars, runVars>>

DoneTargetShared(r) == Reqs

DoneTargetNone(r) == {}

\* ServeHTTP makes a fresh done channel for each request and puts it in the
\* wrapper: the only reader of the wrapper's channel is the handler of r.
DoneTarget(r) == {r}

\* User code that holds the wrapper of r (the pipeline has received it) calls
\* Done(), for the first time or again after its previous call ended: the
\* caller blocks in h.done <- struct{}{}.
CallDone(r, c) ==
    /\ r \in Range(emitted)
    /\ dcall[r][c] = "none"
    /\ \A b \in DoneCallers : b < c => dcall[r][b] \in {"returned", "panicked"}
    /\ dcall' = [dcall EXCEPT ![r][c] = "blocked"]
    /\ UNCHANGED <<cfgVars, ctxVars, trigVars, chanVars, stageVars, drvVars,
                   histVars, emitted, tickerVars, hpc, doneClosed, reqClosed,
                   srvClosed, clockVars, runVars>>

\* The write of Done() meets the <-ch of a handler: Done() returns and the
\* handler goes on to return.
DoneHandoff(r, c) ==
    /\ dcall[r][c] = "blocked"
    /\ ~doneClosed[r]
    /\ \E t \in DoneTarget(r) :
          /\ hpc[t] = "wait"
          /\ hpc' = [hpc EXCEPT ![t] = "got"]
    /\ dcall' = [dcall EXCEPT ![r][c] = "returned"]
    /\ UNCHANGED <<cfgVars, ctxVars, trigVars, chanVars, stageVars, drvVars,
                   histVars, emitted, tickerVars, doneClosed, reqClosed,
                   srvClosed, clockVars, runVars>>

\* ServeHTTP returns; its deferred close(ch) closes the done channel.
HandlerExit(r) ==
    /\ hpc[r] = "got"
    /\ hpc' = [hpc EXCEPT ![r] = "returned"]
    /\ doneClosed' = [doneClosed EXCEPT ![r] = TRUE]
    /\ UNCHANGED <<cfgVars, ctxVars, trigVars, chanVars, stageVars, drvVars,
                   histVars, emitted, tickerVars, dcall, reqClosed, srvClosed,
                   clockVars, runVars>>

\* A Done() call blocked on a done channel that its handler has closed panics.
DonePanic(r, c) ==
    /\ dcall[r][c] = "blocked"
    /\ doneClosed[r]
    /\ dcall' = [dcall EXCEPT ![r][c] = "panicked"]
    /\ UNCHANGED <<cfgVars, ctxVars, trigVars, chanVars, stageVars, drvVars,
                   histVars, emitted, tickerVars, hpc, doneClosed, reqClosed,
                   srvClosed, clockVars, runVars>>

\* ------------------------------------------------------------ specification
InitCore ==
    /\ K \in 1..MaxK
    /\ cancelled = FALSE
    /\ cancelAt = -1
    /\ cancelEarly = FALSE
    /\ theld = NoItem
    /\ chClosed = [c \in 0..MaxK |-> FALSE]
    /\ closeCount = [c \in 0..MaxK |-> 0]
    /\ spc = [i \in Stages |-> IF i <= K THEN "recv" ELSE "none"]
    /\ sheld = [i \in Stages |-> NoItem]
    /\ dpc = "recv"
    /\ handlerLog = <<>>
    /\ returned = 0
    /\ calls = {}
    /\ errs = {}
    /\ succErr = FALSE
    /\ emitted = <<>>

InitTickerVars ==
    /\ tickReady = FALSE
    /\ tickVal = 0
    /\ ticks = 0
    /\ stopped = FALSE

\* No clock is kept in a run whose events come at arbitrary times.
InitClockOff ==
    /\ interval = 0
    /\ deadline = 0
    /\ now = 0
    /\ nextFire = 0

\* The Stage of the run is invoked once, by RunFlow.
InitRunsOff ==
    /\ rpc = [a \in Runs |-> "off"]
    /\ rheld = [a \in Runs |-> 0]
    /\ rcloses = [a \in Runs |-> 0]
    /\ rgot = [a \in Runs |-> {}]

InitHttpVars ==
    /\ hpc = [r \in Reqs |-> "idle"]
    /\ doneClosed = [r \in Reqs |-> FALSE]
    /\ dcall = [r \in Reqs |-> [c \in DoneCallers |-> "none"]]
    /\ reqClosed = FALSE
    /\ srvClosed = FALSE

\* RunFlow(trigger.NewTicker(d).Stage(ctx), flow) has started every worker.
Init ==
    /\ kind = "ticker"
    /\ fallible = TRUE
    /\ tpc = "select"
    /\ InitCore
    /\ InitTickerVars
    /\ InitHttpVars
    /\ InitClockOff
    /\ InitRunsOff

\* RunFlow(trigger.NewHttp(srv, pattern).Stage(ctx), flow) has started every
\* worker and the server is listening; the flow's transforms always succeed.
InitHttp ==
    /\ kind = "http"
    /\ fallible = FALSE
    /\ tpc = "select"
    /\ InitCore
    /\ InitTickerVars
    /\ InitHttpVars
    /\ InitClockOff
    /\ InitRunsOff

\* ctx, cancel := context.WithTimeout(ctx, 35ms);
\* RunFlow(trigger.NewTicker(10ms).Stage(ctx), flow) with transforms that
\* always succeed: the first tick is due one period after NewTicker.
InitTimed ==
    /\ kind = "ticker"
    /\ fallible = FALSE
    /\ tpc = "select"
    /\ InitCore
    /\ InitTickerVars
    /\ InitHttpVars
    /\ interval = 10
    /\ deadline = 35
    /\ now = 0
    /\ nextFire = NewTicker(interval)
    /\ InitRunsOff

\* s := trigger.NewTicker(d).Stage(ctx) has been made and not invoked yet;
\* no flow is attached, the channels have plain readers.
InitTwo ==
    /\ kind = "ticker"
    /\ fallible = FALSE
    /\ tpc = "off"
    /\ InitCore
    /\ K = 1
    /\ InitTickerVars
    /\ InitHttpVars
    /\ InitClockOff
    /\ InitRunsOff

NextFlow ==
    \/ \E i \in Stages : StageRecv(i)
    \/ \E i \in Stages : StageTransform(i)
    \/ \E i \in Stages : StageClose(i)
    \/ DriverRecv
    \/ HandlerReturn
    \/ DriverClose

NextCore == NextFlow \/ Cancel

TickerWorker ==
    \/ TickerSelect
    \/ TickerRecvTick
    \/ TickerCloseCh
    \/ TickerStop

NextTicker == Tick \/ TickerWorker

NextHttp ==
    \/ \E r \in Reqs : ReqArrive(r)
    \/ HttpSelect
    \/ \E r \in Reqs : HttpRecvReq(r)
    \/ HttpCloseReq
    \/ HttpCloseCh
    \/ HttpCloseSrv
    \/ \E r \in Reqs : HandlerPanic(r)
    \/ \E r \in Reqs, c \in DoneCallers : CallDone(r, c)
    \/ \E r \in Reqs, c \in DoneCallers : DoneHandoff(r, c)
    \/ \E r \in Reqs : HandlerExit(r)
    \/ \E r \in Reqs, c \in DoneCallers : DonePanic(r, c)

Next == NextCore \/ NextTicker

Spec == Init /\ [][Next]_vars

NextH == NextCore \/ NextHttp

SpecHttp == InitHttp /\ [][NextH]_vars

\* One Ticker Stage invoked twice, at any two moments.
NextTwo ==
    \/ Tick
    \/ Cancel
    \/ \E a \in Runs : RunStart(a)
    \/ \E a \in Runs : RunSelect(a)
    \/ \E a \in Runs : RunRecvTick(a)
    \/ \E a \in Runs : RunSend(a)
    \/ \E a \in Runs : RunCloseCh(a)
    \/ \E a \in Runs : RunStop(a)

SpecTwo == InitTwo /\ [][NextTwo]_vars

\* A Ticker run against the clock, cancelled by a timeout.
NextTimed == NextFlow \/ TickerWorker \/ TimedTick \/ Timeout

SpecTimed == InitTimed /\ [][NextTimed]_vars

\* The Go scheduler runs every goroutine that can take a step; the context's
\* owner, the timer and the HTTP clients are under no such obligation.
FairCore ==
    /\ \A i \in Stages : WF_vars(StageRecv(i))
    /\ \A i \in Stages : WF_vars(StageTransform(i))
    /\ \A i \in Stages : WF_vars(StageClose(i))
    /\ WF_vars(DriverRecv)
    /\ WF_vars(HandlerReturn)
    /\ WF_vars(DriverClose)

FairTicker ==
    /\ WF_vars(TickerSelect)
    /\ WF_vars(TickerRecvTick)
    /\ WF_vars(TickerCloseCh)
    /\ WF_vars(TickerStop)

FairHttp ==
    /\ WF_vars(\E r \in Reqs : HandlerExit(r))
    /\ WF_vars(\E r \in Reqs, c \in DoneCallers : DoneHandoff(r, c))

\* The Http worker goroutine and the goroutines of the chain it feeds.
FairHttpWorker ==
    /\ WF_vars(HttpSelect)
    /\ WF_vars(\E r \in Reqs : HttpRecvReq(r))
    /\ WF_vars(HttpCloseReq)
    /\ WF_vars(HttpCloseCh)
    /\ WF_vars(HttpCloseSrv)

FairSpec == Spec /\ FairCore /\ FairTicker

\* Every goroutine of an Http run is scheduled; clients send requests as
\* they please.
FairSpecHttpWorker == SpecHttp /\ FairCore /\ FairHttpWorker

FairSpecHttp == SpecHttp /\ FairHttp

\* ------------------------------------------------------------------ claims
Ids(log) == [k \in 1..Len(log) |-> log[k].id]

IsPrefix(p, q) == Len(p) <= Len(q) /\ SubSeq(q, 1, Len(p)) = p

Entries(n, h) == {k \in 1..Len(handlerLog) :
                     handlerLog[k].id = n /\ handlerLog[k].kind = h}

\* No transform has returned an error.
NoTransformError == errs = {}

\* C1: when every transform of the K-stage chain returns no error, the
\* handler invocations are OnSuccess only, one per emitted item, in the order
\* the trigger emitted the items; when RunFlow returns, all N of them have
\* been made.
C1_SuccessesInOrder ==
    NoTransformError =>
        /\ \A k \in 1..Len(handlerLog) : handlerLog[k].kind = "OnSuccess"
        /\ IsPrefix(Ids(handlerLog), emitted)
        /\ dpc = "done" => Len(handlerLog) = Len(emitted)

C1_Witness ==
    /\ dpc = "done"
    /\ K = 2
    /\ NoTransformError
    /\ Len(emitted) >= 2
    /\ Len(handlerLog) = Len(emitted)

\* C2: railway.  Once the transform of stage i has returned an error on an
\* item, no transform of a later stage is ever invoked on that item, OnSuccess
\* is never invoked for it, OnError is invoked at most once for it and with
\* exactly the error stage i made, and exactly once by the time RunFlow returns.
C2_Railway ==
    \A n \in Items : \A i \in 1..K :
        <<i, n>> \in errs =>
            /\ \A j \in (i + 1)..K : <<j, n>> \notin calls
            /\ Entries(n, "OnSuccess") = {}
            /\ Cardinality(Entries(n, "OnError")) <= 1
            /\ \A k \in Entries(n, "OnError") :
                  handlerLog[k].err = i /\ handlerLog[k].val = i - 1
            /\ dpc = "done" => Cardinality(Entries(n, "OnError")) = 1

C2_Witness ==
    /\ dpc = "done"
    /\ K = 2
    /\ \E n \in Items :
          /\ <<1, n>> \in errs
          /\ Entries(n, "OnError") # {}

\* C3: at most one terminal handler invocation is in progress at any time.
C3_OneHandlerAtATime == InProgress <= 1

C3_Witness ==
    /\ InProgress = 1
    /\ SenderReady(Terminal)
    /\ Len(handlerLog) >= 2

\* C4: with failures and successes mixed, the terminal handler invocations
\* (OnSuccess and OnError together) follow the order in which the trigger
\* emitted the items.
C4_HandlersInEmissionOrder == IsPrefix(Ids(handlerLog), emitted)

C4_Witness ==
    /\ K = 2
    /\ Len(handlerLog) >= 2
    /\ handlerLog[1].kind = "OnError"
    /\ handlerLog[1].err = 1
    /\ handlerLog[2].kind = "OnSuccess"

\* C5: when ctx is cancelled before the event source has produced anything
\* (the trigger worker possibly already waiting for its first event), neither
\* OnSuccess nor OnError is ever invoked.
C5_NoHandlerAfterEarlyCancel == cancelEarly => handlerLog = <<>>

\* C6: RunFlow does not return before the terminal channel is closed, and
\* once the trigger's channel is closed every stage worker closes its own
\* channel and exits and RunFlow returns.
C6_Drains ==
    /\ [](dpc = "done" => chClosed[K])
    /\ chClosed[0] ~>
          (dpc = "done" /\ \A i \in 1..K : spc[i] = "exit" /\ chClosed[i])

C6_Witness ==
    /\ dpc = "done"
    /\ K = 2
    /\ chClosed[0]
    /\ Len(handlerLog) >= 2
    /\ \A i \in 1..K : spc[i] = "exit" /\ closeCount[i] = 1

\* The trigger's external resource has been released: the timer is stopped,
\* the HTTP server is closed.
Released == IF kind = "ticker" THEN stopped ELSE srvClosed

\* C7: the trigger worker closes its output channel exactly once, and only
\* after it has released its external resource.
C7_CloseAfterRelease ==
    /\ closeCount[0] <= 1
    /\ chClosed[0] => Released

\* Items the trigger has handed off since handler invocation k started.
HandedOffSince(k) == Len(emitted) - handlerLog[k].emitAt

\* Handler invocations that have not returned.
Running == (returned + 1)..Len(handlerLog)

\* C8 as stated: while an OnSuccess invocation has not returned, the trigger
\* completes the handoff of at most one further item.
C8_OneFurtherItem ==
    \A k \in Running :
        handlerLog[k].kind = "OnSuccess" => HandedOffSince(k) <= 1

\* C8 amended: while an OnSuccess invocation has not returned, the trigger
\* completes the handoff of at most K further items, one per stage worker.
C8_KFurtherItems ==
    \A k \in Running :
        handlerLog[k].kind = "OnSuccess" => HandedOffSince(k) <= K

C8_Witness ==
    /\ K = 2
    /\ InProgress = 1
    /\ handlerLog[Len(handlerLog)].kind = "OnSuccess"
    /\ HandedOffSince(Len(handlerLog)) = 2
    /\ \A i \in 1..K : spc[i] = "send"

\* Done() calls on the wrapper of r that have completed their write.
DoneReturned(r) == {c \in DoneCallers : dcall[r][c] = "returned"}

\* C9: the handler of a request gets past its wait, and so returns, only by
\* a Done() call completed on the wrapper made for that very request: one
\* completed Done() on the wrapper of r when the handler of r has gone on,
\* none while it is still waiting, whatever is called on other wrappers.
C9_DoneReleasesOwnHandler ==
    \A r \in Reqs :
        Cardinality(DoneReturned(r)) =
            IF hpc[r] \in {"got", "returned"} THEN 1 ELSE 0

C9_Witness ==
    /\ hpc[1] = "wait"
    /\ 1 \in Range(emitted)
    /\ hpc[2] = "returned"
    /\ DoneReturned(2) # {}
    /\ DoneReturned(1) = {}

\* C10: a single Done() call on a wrapper the pipeline has received, made at
\* any point of the downstream processing, returns, and the owning handler
\* returns.
C10_SingleDoneCompletes ==
    \A r \in Reqs :
        (dcall[r][1] = "blocked") ~>
            (dcall[r][1] = "returned" /\ hpc[r] = "returned")

C10_Witness ==
    \E r \in Reqs :
        /\ dcall[r][1] = "returned"
        /\ dcall[r][2] = "none"
        /\ hpc[r] = "returned"
        /\ \A i \in Stages : <<i, r>> \notin calls

\* C11: once ctx is cancelled the Http worker closes its output channel and
\* closes the server (stops accepting requests) with no further request
\* having to arrive.
C11_HttpShutsDown == cancelled ~> (chClosed[0] /\ srvClosed)

Count(h) == Cardinality({k \in 1..Len(handlerLog) : handlerLog[k].kind = h})

\* C12: a Ticker made with interval 10 and one pass-through stage, cancelled
\* at time 35, has invoked OnSuccess exactly 3 times and OnError never when
\* RunFlow returns, and never more in between.
C12_ThreeTicksBeforeDeadline ==
    (K = 1 /\ interval = 10 /\ deadline = 35) =>
        /\ Count("OnSuccess") <= 3
        /\ Count("OnError") = 0
        /\ dpc = "done" => Count("OnSuccess") = 3

\* C13: an error returned by OnSuccess is not fed back: every OnError
\* invocation and every failure in a stage channel comes from a transform
\* that returned an error, and there are never more handler invocations than
\* Outcomes the trigger handed off.
C13_HandlerErrorNotFedBack ==
    succErr =>
        /\ \A k \in 1..Len(handlerLog) :
              handlerLog[k].kind = "OnError" =>
                  <<handlerLog[k].err, handlerLog[k].id>> \in errs
        /\ \A i \in 1..K : ~sheld[i].ok => <<sheld[i].err, sheld[i].id>> \in errs
        /\ Len(handlerLog) <= Len(emitted)
        /\ \A k, l \in 1..Len(handlerLog) :
              handlerLog[k].id = handlerLog[l].id => k = l

\* OnSuccess returned an error, later events were still processed, and the
\* run ended without any OnError invocation.
C13_Witness ==
    /\ succErr
    /\ dpc = "done"
    /\ Count("OnSuccess") = MaxItems
    /\ Count("OnError") = 0

\* C14: the runs started by two invocations of one Stage are independent:
\* each closes its own channel at most once, and no run loses its event
\* source to the other (no worker waits for a tick on an empty t.C whose
\* timer has been stopped, a wait that never ends).
C14_RunsIndependent ==
    \A a \in Runs :
        /\ rcloses[a] <= 1
        /\ (rpc[a] = "waitTick" /\ ~tickReady) => ~stopped

\* Item n was handed off by the trigger before item m.
Before(n, m) ==
    \E p, q \in 1..Len(emitted) : p < q /\ emitted[p] = n /\ emitted[q] = m

OnErrorInvoked(n) ==
    \E k \in 1..Len(handlerLog) :
        handlerLog[k].kind = "OnError" /\ handlerLog[k].id = n

PastStage(i, n) ==
    \/ n \in Range(Ids(handlerLog))
    \/ \E j \in (i + 1)..K : sheld[j].id = n

\* C16: a chain of K stages runs exactly K stage workers, and a stage takes
\* an item (and invokes its transform on it) only when every earlier item
\* has been handed to the stage's downstream reader; so a stage holds at
\* most one item, while different stages may hold different items.
C16_OneItemPerStage ==
    /\ Cardinality({i \in Stages : spc[i] # "none"}) = K
    /\ \A i \in 1..K : \A n, m \in Items :
          (Before(n, m) /\ sheld[i].id = m) => PastStage(i, n)

\* Both stages of a chain of two hold an item, stage 1 a later one, and each
\* has invoked its transform on the item it holds.
C16_Witness ==
    /\ K = 2
    /\ spc[1] = "send"
    /\ spc[2] = "send"
    /\ sheld[2].ok
    /\ <<2, sheld[2].id>> \in calls
    /\ <<1, sheld[1].id>> \in calls
    /\ Before(sheld[2].id, sheld[1].id)

\* Items the trigger has handed off whose terminal handler has not returned.
InFlight == Len(emitted) - returned

\* C17: at most K + 1 items are in flight: one per stage worker and one in
\* the terminal handler.
C17_InFlightBound == InFlight <= K + 1

\* The bound is met: each of two stages holds an item while the handler runs
\* on a third.
C17_Witness ==
    /\ K = 2
    /\ InFlight = K + 1
    /\ InProgress = 1

\* Outcomes the trigger worker has handed off since ctx was cancelled.
HandedOffSinceCancel == Len(emitted) - cancelAt

\* C18: after the cancellation the Ticker worker hands off at most one
\* further Outcome; having handed it off it starts no other emission (it is
\* at its select or in its deferred calls), and when it has returned the
\* channel is closed, once, and the timer stopped.
C18_OneEmissionAfterCancel ==
    cancelled =>
        /\ HandedOffSinceCancel <= 1
        /\ HandedOffSinceCancel = 1 =>
              tpc \in {"select", "closeCh", "stop", "exit"}
        /\ tpc = "exit" => (stopped /\ chClosed[0] /\ closeCount[0] = 1)

\* The worker was blocked when ctx was cancelled, handed off one Outcome
\* after that and has returned.
C18_Witness ==
    /\ cancelled
    /\ HandedOffSinceCancel = 1
    /\ tpc = "exit"
    /\ stopped

\* C19: shutdown harms no ServeHTTP call: none writes to ht.ch after the
\* worker has closed it (a write that panics).
C19_NoSendOnClosedReqChannel == \A r \in Reqs : hpc[r] # "panicked"

\* C20: a second Done() call on a wrapper never returns: it stays blocked
\* or, once the owning handler has closed the done channel, panics; and it
\* releases no handler: the handlers past their wait are exactly those whose
\* wrapper had its first Done() call return.
C20_SecondDoneNeverCompletes ==
    \A r \in Reqs :
        /\ dcall[r][2] # "returned"
        /\ dcall[r][2] = "panicked" => doneClosed[r]
        /\ hpc[r] \in {"got", "returned"} <=> dcall[r][1] = "returned"

\* A second call panicked on one wrapper while the handler of the other
\* request, whose wrapper the pipeline holds, was left waiting.
C20_Witness ==
    \E r, t \in Reqs :
        /\ dcall[r][1] = "returned"
        /\ dcall[r][2] = "panicked"
        /\ hpc[t] = "wait"
        /\ t \in Range(emitted)

=============================================================================
